---- MODULE Spec2Model ----
(***************************************************************************)
(* ContractGuard: the dashboard's collection view (filter, sort, paginate, *)
(* aggregate metrics), the mock-data constructor with its risk rules, and  *)
(* the review workflow of a contract.                                      *)
(*                                                                         *)
(* Text is a sequence of one-character strings, so that toLowerCase and    *)
(* includes are computed and not assumed.  An optional number (a field     *)
(* that may be undefined) is <<>> or <<n>>.  Timestamps are milliseconds   *)
(* counted from an epoch chosen so that every seeded timestamp is positive.*)
(***************************************************************************)
EXTENDS Integers, Sequences, FiniteSets, TLC

VARIABLES
    \* ---- Dashboard component state (Dashboard.tsx) ----
    contracts,          \* the contracts prop (the array object's content)
    selectedEntity,     \* 'ALL' or a flag label
    selectedStatus,     \* 'ALL', 'REVIEW' or a ContractStatus
    isHighRiskFilter,
    searchTerm,
    sortOrder,          \* 'asc' | 'desc'
    currentPage,
    itemsPerPage,
    lastEvent,          \* history: the last handler that ran and the page before it
    \* ---- constants.ts: the seeded collection and createMockContract ----
    collection,         \* MOCK_CONTRACTS followed by the records created since
    riskIn,             \* (contractType, amount) handed to the risk rules
    riskOut,            \* what the rules returned for riskIn
    \* ---- workflow engine ----
    store,              \* the in-memory contract collection under review
    outcome,            \* result of the last attempted operation
    lastAttempt,        \* history: the last attempted operation and the store before it
    clock,              \* the time source of audit entries
    \* ---- geminiService.ts ----
    gemini              \* the call in progress: environment, arguments, position, result

dashVars == <<contracts, selectedEntity, selectedStatus, isHighRiskFilter,
              searchTerm, sortOrder, currentPage, itemsPerPage, lastEvent>>
riskVars == <<collection, riskIn, riskOut>>
flowVars == <<store, outcome, lastAttempt, clock>>
aiVars == <<gemini>>
vars == <<dashVars, riskVars, flowVars, aiVars>>

-----------------------------------------------------------------------------
(* Text *)

UpperChars == <<"A","B","C","D","E","F","G","H","I","J","K","L","M",
                "N","O","P","Q","R","S","T","U","V","W","X","Y","Z">>
LowerChars == <<"a","b","c","d","e","f","g","h","i","j","k","l","m",
                "n","o","p","q","r","s","t","u","v","w","x","y","z">>

LowerChar(ch) ==
    IF \E i \in DOMAIN UpperChars : UpperChars[i] = ch
    THEN LowerChars[CHOOSE i \in DOMAIN UpperChars : UpperChars[i] = ch]
    ELSE ch

\* String.prototype.toLowerCase
toLowerCase(s) == [i \in 1..Len(s) |-> LowerChar(s[i])]

\* String.prototype.includes: t occurs in s as a contiguous run
includes(s, t) ==
    \E i \in 0..(Len(s) - Len(t)) : SubSeq(s, i + 1, i + Len(t)) = t

-----------------------------------------------------------------------------
(* Enumerations (types.ts, as used by the sources) *)

Entities == <<"LONDON", "BRAZIL", "CONGO", "EQUATORIAL_GUINEA">>
EntitySet == {Entities[i] : i \in DOMAIN Entities}

Statuses == <<"DRAFT", "SUBMITTED", "PENDING_CEO", "CHANGES_REQUESTED",
              "APPROVED", "REJECTED">>
StatusSet == {Statuses[i] : i \in DOMAIN Statuses}

\* mutant: a missing date counts as the latest
OrZero_missingIsLatest(d) == IF d = <<>> THEN 1000000 ELSE d[1]

\* a || 0 on an optional number: undefined and 0 are both falsy
OrZero(d) == IF d = <<>> THEN 0 ELSE d[1]

-----------------------------------------------------------------------------
(* Collection view: Dashboard.tsx.  The operators take the props and the   *)
(* state they read as parameters; the component's own values follow below. *)

\* mutant: the Congo branch is missing from the chain
entityMatches_noCongo(sel, c) ==
    IF sel = "London" THEN c.entity = "LONDON"
    ELSE IF sel = "Brazil" THEN c.entity = "BRAZIL"
    ELSE c.entity = "EQUATORIAL_GUINEA"

\* the ternary chain shared by the entity filter and kpiBaseContracts
entityMatches(sel, c) ==
    IF sel = "London" THEN c.entity = "LONDON"
    ELSE IF sel = "Brazil" THEN c.entity = "BRAZIL"
    ELSE IF sel = "Congo" THEN c.entity = "CONGO"
    ELSE c.entity = "EQUATORIAL_GUINEA"

\* let data = [...contracts]: a new array, not the prop's array
spreadCopy(cs) == [items |-> cs, isSource |-> FALSE]

\* Array.prototype.filter always returns a new array
filterResult(kept) == [items |-> kept, isSource |-> FALSE]

\* mutant: the composite status leaves PendingCEO out
statusMatches_submittedOnly(st, c) ==
    IF st = "REVIEW" THEN c.status = "SUBMITTED" ELSE c.status = st

statusMatches(st, c) ==
    IF st = "REVIEW" THEN c.status = "SUBMITTED" \/ c.status = "PENDING_CEO"
    ELSE c.status = st

searchMatches(term, c) ==
    LET lower == toLowerCase(term) IN
        \/ includes(toLowerCase(c.contractorName), lower)
        \/ includes(toLowerCase(c.id), lower)
        \/ includes(toLowerCase(c.scopeOfWork), lower)

\* the four filter stages, before the sort
applyFilters(cs, ent, st, hr, term) ==
    LET d0 == spreadCopy(cs)
        byEntity(c) == entityMatches(ent, c)
        d1 == IF ent # "ALL" THEN filterResult(SelectSeq(d0.items, byEntity)) ELSE d0
        byStatus(c) == statusMatches(st, c)
        d2 == IF st = "REVIEW" THEN filterResult(SelectSeq(d1.items, byStatus))
              ELSE IF st # "ALL" THEN filterResult(SelectSeq(d1.items, byStatus)) ELSE d1
        byRisk(c) == c.isHighRisk
        d3 == IF hr THEN filterResult(SelectSeq(d2.items, byRisk)) ELSE d2
        bySearch(c) == searchMatches(term, c)
        d4 == IF term # <<>> THEN filterResult(SelectSeq(d3.items, bySearch)) ELSE d3
    IN d4

\* mutant: the comparator ignores sortOrder
compareDates_ascOnly(a, b, order) ==
    OrZero(a.submissionDate) - OrZero(b.submissionDate)

\* the comparator handed to data.sort
compareDates(a, b, order) ==
    LET dateA == OrZero(a.submissionDate)
        dateB == OrZero(b.submissionDate)
    IN IF order = "asc" THEN dateA - dateB ELSE dateB - dateA

\* Array.prototype.sort(compare) is stable: element i is placed before
\* element j when compare puts it first, or when they compare equal and i
\* came first in the array
sortsBefore(items, i, j, order) ==
    LET c == compareDates(items[i], items[j], order)
    IN c < 0 \/ (c = 0 /\ i < j)

sortArr(items, order) ==
    LET n == Len(items)
        rank == SubSeq([i \in 1..n |->
                    Cardinality({j \in 1..n : sortsBefore(items, j, i, order)}) + 1],
                    1, n)
        place == SubSeq([k \in 1..n |-> CHOOSE i \in 1..n : rank[i] = k], 1, n)
    IN SubSeq([k \in 1..n |-> items[place[k]]], 1, n)

\* the useMemo body: the array it returns
filterAndSort(cs, ent, st, hr, term, order) ==
    sortArr(applyFilters(cs, ent, st, hr, term).items, order)

\* the content of the contracts array once the memo has run: data.sort sorts
\* in place, so it reorders the prop's array when data is that array
sourceAfterSort(cs, ent, st, hr, term, order) ==
    LET d == applyFilters(cs, ent, st, hr, term)
    IN IF d.isSource THEN sortArr(d.items, order) ELSE cs

ceilDiv(n, d) == (n + d - 1) \div d

\* Array.prototype.slice(start, end) with 0 <= start
sliceArr(items, start, end) ==
    SubSeq(items, start + 1, IF end < Len(items) THEN end ELSE Len(items))

\* mutant: the first page starts after one page
paginate_fromPageOne(filtered, page, perPage) ==
    LET startIndex == page * perPage
    IN sliceArr(filtered, startIndex, startIndex + perPage)

paginate(filtered, page, perPage) ==
    LET startIndex == (page - 1) * perPage
    IN sliceArr(filtered, startIndex, startIndex + perPage)

\* mutant: the metrics computed over the filtered register
kpiBase_filtered(cs, ent) ==
    filterAndSort(cs, ent, selectedStatus, isHighRiskFilter, searchTerm, sortOrder)

kpiBase(cs, ent) ==
    LET byEntity(c) == entityMatches(ent, c)
    IN IF ent = "ALL" THEN cs ELSE SelectSeq(cs, byEntity)

RECURSIVE reduceAmount(_, _)
reduceAmount(items, acc) ==
    IF items = <<>> THEN acc
    ELSE reduceAmount(Tail(items), acc + Head(items).amount)

countStatus(base, st) ==
    LET is(c) == c.status = st IN Len(SelectSeq(base, is))

\* mutant: the Congo bar sums the Brazil contracts
sumEntity_congoIsBrazil(base, e) ==
    LET is(c) == c.entity = (IF e = "CONGO" THEN "BRAZIL" ELSE e)
    IN reduceAmount(SelectSeq(base, is), 0)

sumEntity(base, e) ==
    LET is(c) == c.entity = e IN reduceAmount(SelectSeq(base, is), 0)

\* mutant: the empty buckets stay in the chart data
nonZeroBuckets_keepAll(buckets) == buckets

\* .filter(d => d.value > 0)
nonZeroBuckets(buckets) ==
    LET nonZero(d) == d.value > 0 IN SelectSeq(buckets, nonZero)

\* avgDays is 2.5 or 0 in the source: kept in tenths of a day
computeMetrics(base) ==
    LET isPending(c) == c.status = "SUBMITTED" \/ c.status = "PENDING_CEO"
        isRisk(c) == c.isHighRisk
    IN [pending    |-> Len(SelectSeq(base, isPending)),
        totalValue |-> reduceAmount(base, 0),
        highRisk   |-> Len(SelectSeq(base, isRisk)),
        avgDays    |-> IF Len(base) > 0 THEN 25 ELSE 0,
        statusData |-> nonZeroBuckets(
            << [name |-> "SUBMITTED",   value |-> countStatus(base, "SUBMITTED")],
               [name |-> "PENDING_CEO", value |-> countStatus(base, "PENDING_CEO")],
               [name |-> "APPROVED",    value |-> countStatus(base, "APPROVED")],
               [name |-> "REJECTED",    value |-> countStatus(base, "REJECTED")] >>),
        spendData |->
            << [name |-> "London",     value |-> sumEntity(base, "LONDON")],
               [name |-> "Brazil",     value |-> sumEntity(base, "BRAZIL")],
               [name |-> "Congo",      value |-> sumEntity(base, "CONGO")],
               [name |-> "Eq. Guinea", value |-> sumEntity(base, "EQUATORIAL_GUINEA")] >>]

-----------------------------------------------------------------------------
(* Contract collections handed to the dashboard *)

Digits == <<"0","1","2","3","4","5","6","7","8","9">>

\* "C" followed by the decimal digits of i (i < 1000)
idOf(i) ==
    IF i < 10 THEN <<"C", Digits[i + 1]>>
    ELSE IF i < 100 THEN <<"C", Digits[(i \div 10) + 1], Digits[(i % 10) + 1]>>
    ELSE <<"C", Digits[(i \div 100) + 1], Digits[((i \div 10) % 10) + 1],
           Digits[(i % 10) + 1]>>

\* the fields of ContractData the dashboard reads
ViewContract(id, entity, status, amount, risk, date, name, scope) ==
    [id |-> id, entity |-> entity, status |-> status, amount |-> amount,
     isHighRisk |-> risk, submissionDate |-> date,
     contractorName |-> name, scopeOfWork |-> scope]

NamePool == << <<"A","b">>, <<"b","a">>, <<"x","Y">> >>
ScopePool == << <<"s">>, <<"a","B","c">> >>

\* number of contracts of the collection that spans several pages
BigN == 27

\* contract i of the large collection: every entity and status occurs, some
\* timestamps are equal, some contracts have no submissionDate
bigContract(i) ==
    ViewContract(idOf(i),
                 Entities[(i % 4) + 1],
                 Statuses[((i \div 2) % 6) + 1],
                 ((i % 5) + 1) * 100000,
                 i % 3 = 0,
                 IF i % 7 = 0 THEN <<>> ELSE <<((i * 3) % 5) + 1>>,
                 NamePool[(i % 3) + 1],
                 ScopePool[(i % 2) + 1])

BigCollection == [i \in 1..BigN |-> bigContract(i)]

\* a short collection: two entities, equal and missing timestamps
SmallCollection ==
    << ViewContract(idOf(1), "BRAZIL", "SUBMITTED",   1200000, TRUE,  <<2>>, <<"A","b">>, <<"s">>),
       ViewContract(idOf(2), "CONGO",  "PENDING_CEO", 6000000, TRUE,  <<1>>, <<"b","a">>, <<"a","B","c">>),
       ViewContract(idOf(3), "BRAZIL", "DRAFT",        500000, FALSE, <<>>,  <<"x","Y">>, <<"s">>),
       ViewContract(idOf(4), "LONDON", "APPROVED",     800000, FALSE, <<2>>, <<"A","b">>, <<"s">>) >>

DashboardCollections == {BigCollection, SmallCollection, <<>>}

\* longest collection drawn for the checks of the derivations
MaxContracts == 2

\* contract shapes the drawn collections are made of (the id comes from the
\* position): every entity and status, equal, distinct and missing
\* timestamps, names and scopes that differ in case only
ShapePool ==
    << [entity |-> "LONDON", status |-> "SUBMITTED", amount |-> 1200000,
        risk |-> TRUE, date |-> <<2>>, name |-> <<"A","b">>, scope |-> <<"s">>],
       [entity |-> "BRAZIL", status |-> "PENDING_CEO", amount |-> 6000000,
        risk |-> TRUE, date |-> <<1>>, name |-> <<"b","a">>, scope |-> <<"a","B","c">>],
       [entity |-> "CONGO", status |-> "DRAFT", amount |-> 500000,
        risk |-> FALSE, date |-> <<>>, name |-> <<"x","Y">>, scope |-> <<"s">>],
       [entity |-> "EQUATORIAL_GUINEA", status |-> "APPROVED", amount |-> 800000,
        risk |-> FALSE, date |-> <<2>>, name |-> <<"a","B">>, scope |-> <<"C","1">>],
       [entity |-> "BRAZIL", status |-> "REJECTED", amount |-> 2000000,
        risk |-> TRUE, date |-> <<1>>, name |-> <<"x","Y">>, scope |-> <<"s">>],
       [entity |-> "BRAZIL", status |-> "CHANGES_REQUESTED", amount |-> 5000000,
        risk |-> FALSE, date |-> <<2>>, name |-> <<"b","a">>, scope |-> <<"s">>],
       [entity |-> "CONGO", status |-> "SUBMITTED", amount |-> 800000,
        risk |-> FALSE, date |-> <<>>, name |-> <<"A","b">>, scope |-> <<"s">>],
       [entity |-> "LONDON", status |-> "APPROVED", amount |-> 1000000,
        risk |-> FALSE, date |-> <<0>>, name |-> <<"x","Y">>, scope |-> <<"a","B","c">>] >>

shaped(i, k) ==
    LET p == ShapePool[k]
    IN ViewContract(idOf(i), p.entity, p.status, p.amount, p.risk, p.date,
                    p.name, p.scope)

DrawnCollections ==
    {SmallCollection} \cup UNION { { [i \in 1..n |-> shaped(i, ks[i])] :
                ks \in [1..n -> DOMAIN ShapePool] } : n \in 0..MaxContracts }

-----------------------------------------------------------------------------
(* The Dashboard component *)

FlagLabels == {"London", "Brazil", "Congo", "Equatorial Guinea"}
StatusOptions == {"ALL", "REVIEW"} \cup StatusSet
PageSizeOptions == {25, 50, 100}
SearchInputs == { <<>>, <<"A","B">>, <<"c","1">> }

filteredContracts ==
    filterAndSort(contracts, selectedEntity, selectedStatus, isHighRiskFilter,
                  searchTerm, sortOrder)

totalPages == ceilDiv(Len(filteredContracts), itemsPerPage)

paginatedContracts == paginate(filteredContracts, currentPage, itemsPerPage)

kpiBaseContracts == kpiBase(contracts, selectedEntity)

metrics == computeMetrics(kpiBaseContracts)

\* mutant: the page size is missing from the dependency list
effectDeps_noPageSize(ent, st, term, perPage, hr) == <<ent, st, term, hr>>

\* the dependency list of the page-reset effect
effectDeps(ent, st, term, perPage, hr) == <<ent, st, term, perPage, hr>>

\* mutant: the effect is missing and the page is kept
pageResetEffect_keepPage(before, after, page) == page

\* useEffect(() => setCurrentPage(1), deps): runs after a render in which a
\* dependency differs from the previous render's
pageResetEffect(before, after, page) == IF before # after THEN 1 ELSE page

DashInit ==
    /\ contracts \in DashboardCollections
    /\ selectedEntity = "ALL"
    /\ selectedStatus = "ALL"
    /\ isHighRiskFilter = FALSE
    /\ searchTerm = <<>>
    /\ sortOrder = "desc"
    /\ currentPage = 1
    /\ itemsPerPage = 25
    /\ lastEvent = [op |-> "mount", page |-> 1]

\* longest collection of the checks of pagination: a fifth page at 25 rows,
\* a third at 50 and a second at 100
MaxPagedLen == 101

\* lengths around the multiples of the page sizes
PagedLengths == {0, 1, 24, 25, 26, 49, 50, 51, 75, 99, 100, MaxPagedLen}

PagedCollections == { [i \in 1..n |-> bigContract(i)] : n \in PagedLengths }

PagesInit ==
    /\ contracts \in PagedCollections
    /\ selectedEntity = "ALL"
    /\ selectedStatus = "ALL"
    /\ isHighRiskFilter = FALSE
    /\ searchTerm = <<>>
    /\ sortOrder = "desc"
    /\ currentPage = 1
    /\ itemsPerPage = 25
    /\ lastEvent = [op |-> "mount", page |-> 1]

\* a handler's state updates, the re-render, the memo's sort and the effect
Render(op, ent, st, hr, term, order, perPage, page) ==
    /\ selectedEntity' = ent
    /\ selectedStatus' = st
    /\ isHighRiskFilter' = hr
    /\ searchTerm' = term
    /\ sortOrder' = order
    /\ itemsPerPage' = perPage
    /\ currentPage' =
         pageResetEffect(
            effectDeps(selectedEntity, selectedStatus, searchTerm, itemsPerPage, isHighRiskFilter),
            effectDeps(ent, st, term, perPage, hr), page)
    /\ contracts' = sourceAfterSort(contracts, ent, st, hr, term, order)
    /\ lastEvent' = [op |-> op, page |-> currentPage]
    /\ UNCHANGED <<riskVars, flowVars, aiVars>>

FlagButtonClick(label) ==
    /\ label \in FlagLabels
    /\ Render("flag", IF selectedEntity = label THEN "ALL" ELSE label,
           selectedStatus, isHighRiskFilter, searchTerm, sortOrder,
           itemsPerPage, currentPage)

StatusSelectChange(value) ==
    /\ value \in StatusOptions
    /\ Render("status", selectedEntity, value, isHighRiskFilter, searchTerm,
           sortOrder, itemsPerPage, currentPage)

SearchInputChange(value) ==
    /\ value \in SearchInputs
    /\ Render("search", selectedEntity, selectedStatus, isHighRiskFilter, value,
           sortOrder, itemsPerPage, currentPage)

toggleSortOrder ==
    /\ sortOrder \in {"asc", "desc"}
    /\ Render("sort", selectedEntity, selectedStatus, isHighRiskFilter, searchTerm,
           IF sortOrder = "asc" THEN "desc" ELSE "asc", itemsPerPage, currentPage)

\* mutant: the high-risk card keeps the selected status
handleKPIClick_riskKeepsStatus(type) ==
    /\ type \in {"PENDING", "VALUE", "RISK", "AVG"}
    /\ IF type = "PENDING"
       THEN Render("kpi:PENDING", selectedEntity, "REVIEW", FALSE, searchTerm, sortOrder,
                   itemsPerPage, currentPage)
       ELSE IF type = "RISK"
       THEN Render("kpi:RISK", selectedEntity, selectedStatus, TRUE, searchTerm,
                   sortOrder, itemsPerPage, currentPage)
       ELSE Render(IF type = "VALUE" THEN "kpi:VALUE" ELSE "kpi:AVG",
                   selectedEntity, "ALL", FALSE, searchTerm, sortOrder,
                   itemsPerPage, currentPage)

handleKPIClick(type) ==
    /\ type \in {"PENDING", "VALUE", "RISK", "AVG"}
    /\ IF type = "PENDING"
       THEN Render("kpi:PENDING", selectedEntity, "REVIEW", FALSE, searchTerm, sortOrder,
                   itemsPerPage, currentPage)
       ELSE IF type = "RISK"
       THEN Render("kpi:RISK", selectedEntity, "ALL", TRUE, searchTerm, sortOrder,
                   itemsPerPage, currentPage)
       ELSE Render(IF type = "VALUE" THEN "kpi:VALUE" ELSE "kpi:AVG",
                   selectedEntity, "ALL", FALSE, searchTerm, sortOrder,
                   itemsPerPage, currentPage)

\* a click on a slice of the status pie: only slices of statusData exist
PieClick(i) ==
    /\ i \in DOMAIN metrics.statusData
    /\ Render("pie", selectedEntity, metrics.statusData[i].name, FALSE,
              searchTerm, sortOrder, itemsPerPage, currentPage)

ItemsPerPageChange(n) ==
    /\ n \in PageSizeOptions
    /\ Render("pageSize", selectedEntity, selectedStatus, isHighRiskFilter,
           searchTerm, sortOrder, n, currentPage)

PreviousPageClick ==
    /\ currentPage # 1
    /\ Render("prev", selectedEntity, selectedStatus, isHighRiskFilter,
              searchTerm, sortOrder, itemsPerPage,
              IF currentPage - 1 > 1 THEN currentPage - 1 ELSE 1)

NextPageClick ==
    /\ ~(currentPage = totalPages \/ totalPages = 0)
    /\ Render("next", selectedEntity, selectedStatus, isHighRiskFilter,
              searchTerm, sortOrder, itemsPerPage,
              IF totalPages < currentPage + 1 THEN totalPages ELSE currentPage + 1)

Next ==
    \/ \E label \in FlagLabels : FlagButtonClick(label)
    \/ \E value \in StatusOptions : StatusSelectChange(value)
    \/ \E value \in SearchInputs : SearchInputChange(value)
    \/ toggleSortOrder
    \/ \E type \in {"PENDING", "VALUE", "RISK", "AVG"} : handleKPIClick(type)
    \/ \E i \in 1..4 : PieClick(i)
    \/ \E n \in PageSizeOptions : ItemsPerPageChange(n)
    \/ PreviousPageClick
    \/ NextPageClick

-----------------------------------------------------------------------------
(* constants.ts: users, the risk rules of createMockContract, the seeded   *)
(* collection                                                              *)

MOCK_USERS ==
    << [id |-> "u1", name |-> "Sarah SCM",        role |-> "SCM",                entity |-> "BRAZIL", isActive |-> TRUE],
       [id |-> "u2", name |-> "Charles CFO",      role |-> "CORPORATE_CFO",      entity |-> "LONDON", isActive |-> TRUE],
       [id |-> "u3", name |-> "Larry Legal",      role |-> "CORPORATE_LEGAL",    entity |-> "LONDON", isActive |-> TRUE],
       [id |-> "u4", name |-> "Fiona Function",   role |-> "CORPORATE_FUNCTION", entity |-> "CONGO",  isActive |-> TRUE],
       [id |-> "u5", name |-> "Chief CEO",        role |-> "CEO",                entity |-> "LONDON", isActive |-> TRUE],
       [id |-> "u6", name |-> "Adam Admin",       role |-> "ADMIN",              entity |-> "LONDON", isActive |-> TRUE],
       [id |-> "u7", name |-> "Eric Engineering", role |-> "ENGINEERING",        entity |-> "BRAZIL", isActive |-> TRUE],
       [id |-> "u8", name |-> "Helen HSE",        role |-> "HSE",                entity |-> "BRAZIL", isActive |-> TRUE],
       [id |-> "u9", name |-> "Ian IT",           role |-> "CORPORATE_FUNCTION", entity |-> "LONDON", isActive |-> TRUE] >>

OpexThreshold == 1000000
CapexThreshold == 5000000
CapexTypeThreshold == 5000000

TriggerT1 ==
    [id |-> "t1", category |-> "FINANCIAL", description |-> "OPEX > USD 1M", triggered |-> TRUE]
TriggerT2 ==
    [id |-> "t2", category |-> "FINANCIAL", description |-> "CAPEX > USD 5M", triggered |-> TRUE]

\* mutant: the thresholds are inclusive
detectTriggers_inclusive(contractType, amount) ==
    (IF contractType = "OPEX" /\ amount >= OpexThreshold THEN <<TriggerT1>> ELSE <<>>)
    \o (IF contractType = "CAPEX" /\ amount >= CapexThreshold THEN <<TriggerT2>> ELSE <<>>)

\* mutant: the catalog entry is pushed with its flag as declared (false)
detectTriggers_flagNotSet(contractType, amount) ==
    (IF contractType = "OPEX" /\ amount > OpexThreshold
       THEN << [TriggerT1 EXCEPT !.triggered = FALSE] >> ELSE <<>>)
    \o (IF contractType = "CAPEX" /\ amount > CapexThreshold THEN <<TriggerT2>> ELSE <<>>)

\* the two pushes onto detectedTriggers
detectTriggers(contractType, amount) ==
    (IF contractType = "OPEX" /\ amount > OpexThreshold THEN <<TriggerT1>> ELSE <<>>)
    \o (IF contractType = "CAPEX" /\ amount > CapexThreshold THEN <<TriggerT2>> ELSE <<>>)

\* const isHighRisk = detectedTriggers.length > 0
evaluateRisk(contractType, amount) ==
    LET detectedTriggers == detectTriggers(contractType, amount)
    IN [detectedTriggers |-> detectedTriggers,
        isHighRisk |-> Len(detectedTriggers) > 0]

\* an empty object literal {}: a map with no keys
EmptyMap == [k \in {} |-> TRUE]

\* mutant: the threshold itself counts as CAPEX
deriveContractType_inclusive(amount) ==
    IF amount >= CapexTypeThreshold THEN "CAPEX" ELSE "OPEX"

\* line 176: amount > 5000000 ? 'CAPEX' : 'OPEX'
deriveContractType(amount) ==
    IF amount > CapexTypeThreshold THEN "CAPEX" ELSE "OPEX"

\* now is Date.now(); random is Math.random() * 1000000000 in whole ms
createMockContract(id, entity, status, amount, title, now, random) ==
    LET contractType == deriveContractType(amount)
        risk == evaluateRisk(contractType, amount)
    IN [id |-> id,
        entity |-> entity,
        contractorName |-> title,
        contractType |-> contractType,
        amount |-> amount,
        scopeOfWork |-> <<"P","r","o","v","i","s","i","o","n"," ","o","f"," ">>
                          \o toLowerCase(title)
                          \o <<" ","s","e","r","v","i","c","e","s",".">>,
        status |-> status,
        submitterId |-> "u1",
        submissionDate |-> <<now - random>>,
        detectedTriggers |-> risk.detectedTriggers,
        isHighRisk |-> risk.isHighRisk,
        auditTrail |-> <<>>,
        comments |-> <<>>,
        hasUnreadComments |-> FALSE,
        reviews |-> <<>>,
        adHocReviewers |-> <<>>,
        corporateApprovals |-> EmptyMap]

\* Date.now() at module load, in ms from the model's epoch
Now == 2000000000

\* number of random draws the seeded collection is built with
MaxSeeds == 2

\* the k-th Math.random() * 1000000000 of a load, in whole ms below 10^9
mockRandom(seed, k) == ((k * 7919 + seed * 104729) % 1000) * 1000000

CNT_2023_001(now) ==
    [id |-> <<"C","N","T","-","2","0","2","3","-","0","0","1">>,
     entity |-> "BRAZIL",
     contractorName |-> <<"D","e","e","p","S","e","a"," ","S","o","l","u","t","i","o","n","s">>,
     contractType |-> "CAPEX",
     amount |-> 12000000,
     scopeOfWork |-> <<"P","r","o","v","i","s","i","o","n"," ","o","f"," ","d","e","e","p","w","a","t","e","r"," ","d","r","i","l","l","i","n","g"," ","r","i","g"," ","s","u","p","p","o","r","t"," ","s","e","r","v","i","c","e","s",".">>,
     status |-> "PENDING_CEO",
     submitterId |-> "u1",
     submissionDate |-> <<now - 172800000>>,
     detectedTriggers |-> <<TriggerT2>>,
     isHighRisk |-> TRUE,
     auditTrail |->
        << [id |-> <<"a", 1>>, timestamp |-> now - 172800000, userId |-> "u1",
            userName |-> "Sarah SCM", action |-> "Submitted Contract", details |-> <<>>],
           [id |-> <<"a", 2>>, timestamp |-> now - 86400000, userId |-> "u2",
            userName |-> "Charles CFO", action |-> "Approved", details |-> <<"Budget approved.">>],
           [id |-> <<"a", 3>>, timestamp |-> now - 85000000, userId |-> "u3",
            userName |-> "Larry Legal", action |-> "Approved", details |-> <<"Legal terms standard.">>] >>,
     comments |->
        << [id |-> <<"c", 1>>, userId |-> "u2", userName |-> "Charles CFO", role |-> "CORPORATE_CFO",
            text |-> "Please clarify the payment terms on page 12.", timestamp |-> now - 100000000],
           [id |-> <<"c", 2>>, userId |-> "u1", userName |-> "Sarah SCM", role |-> "SCM",
            text |-> "Updated to standard 30 days net.", timestamp |-> now - 90000000] >>,
     hasUnreadComments |-> TRUE,
     reviews |->
        << [id |-> <<"r", 1>>, reviewerId |-> "u2", reviewerName |-> "Charles CFO",
            role |-> "CORPORATE_CFO", decision |-> "Approved",
            comment |-> <<"Budget approved.">>, timestamp |-> now - 86400000],
           [id |-> <<"r", 2>>, reviewerId |-> "u3", reviewerName |-> "Larry Legal",
            role |-> "CORPORATE_LEGAL", decision |-> "Approved",
            comment |-> <<"Legal terms standard.">>, timestamp |-> now - 85000000] >>,
     adHocReviewers |-> <<>>,
     corporateApprovals |-> [k \in {"cfo", "legal", "functionHead"} |-> TRUE]]

CNT_2023_002(now) ==
    [id |-> <<"C","N","T","-","2","0","2","3","-","0","0","2">>,
     entity |-> "CONGO",
     contractorName |-> <<"L","o","c","a","l"," ","T","r","a","n","s","p","o","r","t"," ","C","o">>,
     contractType |-> "OPEX",
     amount |-> 800000,
     scopeOfWork |-> <<"L","o","g","i","s","t","i","c","s"," ","s","u","p","p","o","r","t",".">>,
     status |-> "SUBMITTED",
     submitterId |-> "u1",
     submissionDate |-> <<now - 3600000>>,
     detectedTriggers |-> <<>>,
     isHighRisk |-> FALSE,
     auditTrail |->
        << [id |-> <<"a", 4>>, timestamp |-> now - 3600000, userId |-> "u1",
            userName |-> "Sarah SCM", action |-> "Submitted Contract", details |-> <<>>] >>,
     comments |-> <<>>,
     hasUnreadComments |-> FALSE,
     reviews |-> <<>>,
     adHocReviewers |-> <<>>,
     corporateApprovals |-> EmptyMap]

MOCK_CONTRACTS(now, seed) ==
    << CNT_2023_001(now),
       CNT_2023_002(now),
       createMockContract(<<"C","N","T","-","2","0","2","3","-","0","0","3">>,
           "BRAZIL", "APPROVED", 15000000,
           <<"F","P","S","O"," ","M","a","i","n","t","e","n","a","n","c","e">>, now, mockRandom(seed, 1)),
       createMockContract(<<"C","N","T","-","2","0","2","3","-","0","0","4">>,
           "BRAZIL", "SUBMITTED", 8000000,
           <<"S","u","p","p","o","r","t"," ","V","e","s","s","e","l"," ","C","h","a","r","t","e","r">>, now, mockRandom(seed, 2)),
       createMockContract(<<"C","N","T","-","2","0","2","3","-","0","0","5">>,
           "BRAZIL", "REJECTED", 2000000,
           <<"O","f","f","s","h","o","r","e"," ","C","a","t","e","r","i","n","g">>, now, mockRandom(seed, 3)),
       createMockContract(<<"C","N","T","-","2","0","2","3","-","0","0","6">>,
           "BRAZIL", "DRAFT", 500000,
           <<"W","a","s","t","e"," ","M","a","n","a","g","e","m","e","n","t">>, now, mockRandom(seed, 4)),
       createMockContract(<<"C","N","T","-","2","0","2","3","-","0","0","7">>,
           "BRAZIL", "PENDING_CEO", 45000000,
           <<"S","u","b","s","e","a"," ","T","r","e","e"," ","I","n","s","t","a","l","l","a","t","i","o","n">>, now, mockRandom(seed, 5)),
       createMockContract(<<"C","N","T","-","2","0","2","3","-","0","0","8">>,
           "CONGO", "APPROVED", 1200000,
           <<"R","o","a","d"," ","M","a","i","n","t","e","n","a","n","c","e">>, now, mockRandom(seed, 6)),
       createMockContract(<<"C","N","T","-","2","0","2","3","-","0","0","9">>,
           "CONGO", "PENDING_CEO", 3000000,
           <<"S","i","t","e"," ","S","e","c","u","r","i","t","y"," ","S","e","r","v","i","c","e","s">>, now, mockRandom(seed, 7)),
       createMockContract(<<"C","N","T","-","2","0","2","3","-","0","1","0">>,
           "CONGO", "CHANGES_REQUESTED", 5000000,
           <<"B","a","s","e"," ","C","a","m","p"," ","C","o","n","s","t","r","u","c","t","i","o","n">>, now, mockRandom(seed, 8)),
       createMockContract(<<"C","N","T","-","2","0","2","3","-","0","1","1">>,
           "CONGO", "SUBMITTED", 800000,
           <<"D","i","e","s","e","l"," ","S","u","p","p","l","y">>, now, mockRandom(seed, 9)),
       createMockContract(<<"C","N","T","-","2","0","2","3","-","0","1","2">>,
           "CONGO", "APPROVED", 600000,
           <<"M","e","d","i","c","a","l"," ","S","e","r","v","i","c","e","s">>, now, mockRandom(seed, 10)),
       createMockContract(<<"C","N","T","-","2","0","2","3","-","0","1","3">>,
           "EQUATORIAL_GUINEA", "PENDING_CEO", 12000000,
           <<"G","a","s"," ","T","u","r","b","i","n","e"," ","O","v","e","r","h","a","u","l">>, now, mockRandom(seed, 11)),
       createMockContract(<<"C","N","T","-","2","0","2","3","-","0","1","4">>,
           "EQUATORIAL_GUINEA", "APPROVED", 1500000,
           <<"S","c","a","f","f","o","l","d","i","n","g"," ","S","e","r","v","i","c","e","s">>, now, mockRandom(seed, 12)),
       createMockContract(<<"C","N","T","-","2","0","2","3","-","0","1","5">>,
           "EQUATORIAL_GUINEA", "SUBMITTED", 900000,
           <<"P","a","i","n","t"," ","&"," ","B","l","a","s","t">>, now, mockRandom(seed, 13)),
       createMockContract(<<"C","N","T","-","2","0","2","3","-","0","1","6">>,
           "EQUATORIAL_GUINEA", "DRAFT", 300000,
           <<"V","a","l","v","e"," ","S","u","p","p","l","y">>, now, mockRandom(seed, 14)),
       createMockContract(<<"C","N","T","-","2","0","2","3","-","0","1","7">>,
           "EQUATORIAL_GUINEA", "REJECTED", 2000000,
           <<"C","r","a","n","e"," ","R","e","n","t","a","l">>, now, mockRandom(seed, 15)),
       createMockContract(<<"C","N","T","-","2","0","2","3","-","0","1","8">>,
           "LONDON", "PENDING_CEO", 5000000,
           <<"E","R","P"," ","L","i","c","e","n","s","e"," ","R","e","n","e","w","a","l">>, now, mockRandom(seed, 16)),
       createMockContract(<<"C","N","T","-","2","0","2","3","-","0","1","9">>,
           "LONDON", "APPROVED", 1000000,
           <<"G","l","o","b","a","l"," ","A","u","d","i","t"," ","S","e","r","v","i","c","e","s">>, now, mockRandom(seed, 17)),
       createMockContract(<<"C","N","T","-","2","0","2","3","-","0","2","0">>,
           "LONDON", "SUBMITTED", 2000000,
           <<"L","e","g","a","l"," ","C","o","u","n","s","e","l"," ","R","e","t","a","i","n","e","r">>, now, mockRandom(seed, 18)),
       createMockContract(<<"C","N","T","-","2","0","2","3","-","0","2","1">>,
           "LONDON", "PENDING_CEO", 8000000,
           <<"N","e","w"," ","O","f","f","i","c","e"," ","L","e","a","s","e">>, now, mockRandom(seed, 19)),
       createMockContract(<<"C","N","T","-","2","0","2","3","-","0","2","2">>,
           "LONDON", "CHANGES_REQUESTED", 1500000,
           <<"I","T"," ","I","n","f","r","a","s","t","r","u","c","t","u","r","e"," ","S","u","p","p","o","r","t">>, now, mockRandom(seed, 20)) >>

-----------------------------------------------------------------------------
(* The risk rules and the mock constructor applied to drawn inputs *)

\* most contracts created on top of the seeded collection
MaxCreated == 1

AmountSamples ==
    {0, 1, 300000, 500000, 800000, 999999, 1000000, 1000001, 1200000, 2000000,
     3000000, 4999999, 5000000, 5000001, 6000000, 8000000, 12000000, 45000000}

SeededCount == Len(MOCK_CONTRACTS(Now, 1))

RiskInit ==
    /\ \E seed \in 1..MaxSeeds : collection = MOCK_CONTRACTS(Now, seed)
    /\ riskIn \in [phase : {"input"}, contractType : {"CAPEX", "OPEX"},
                   amount : AmountSamples, entity : EntitySet, status : StatusSet]
    /\ riskOut = [detectedTriggers |-> <<>>, isHighRisk |-> FALSE]

\* the risk rules run on a declared type and amount
EvaluateRisk ==
    /\ riskIn.phase = "input"
    /\ riskIn' = [riskIn EXCEPT !.phase = "evaluated"]
    /\ riskOut' = evaluateRisk(riskIn.contractType, riskIn.amount)
    /\ UNCHANGED <<collection, dashVars, flowVars, aiVars>>

\* one more record built by createMockContract
CreateMock ==
    /\ Len(collection) < SeededCount + MaxCreated
    /\ collection' =
         Append(collection,
                createMockContract(<<"N","E","W","-">> \o idOf(Len(collection) + 1),
                                   riskIn.entity, riskIn.status, riskIn.amount,
                                   <<"N","e","w"," ","W","o","r","k">>,
                                   Now, mockRandom(1, Len(collection) + 1)))
    /\ UNCHANGED <<riskIn, riskOut, dashVars, flowVars, aiVars>>

-----------------------------------------------------------------------------
(* Workflow engine (specification section 4.2).  A transition is attempted *)
(* by a user with a decision; it is validated first and applied as a whole *)
(* or not at all.                                                          *)

Decisions == {"submit", "approve", "reject", "requestChanges"}

TerminalStatuses == {"APPROVED", "REJECTED"}

StandardApproverRoles == {"CORPORATE_CFO", "CORPORATE_LEGAL", "CORPORATE_FUNCTION"}

RequiredApprovals == {"cfo", "legal", "functionHead"}

\* value above which a contract is escalated to the CEO
CeoValueThreshold == 5000000

approvalKey(role) ==
    CASE role = "CORPORATE_CFO" -> "cfo"
      [] role = "CORPORATE_LEGAL" -> "legal"
      [] role = "CORPORATE_FUNCTION" -> "functionHead"

isApproved(approvals, key) == key \in DOMAIN approvals /\ approvals[key]

setApproved(approvals, key) ==
    [k \in (DOMAIN approvals) \cup {key} |-> IF k = key THEN TRUE ELSE approvals[k]]

\* mutant: a rejected contract may be resubmitted
allowedRoles_resubmitRejected(status, decision) ==
    IF decision = "submit" /\ status \in {"DRAFT", "CHANGES_REQUESTED", "REJECTED"}
    THEN {"SCM"}
    ELSE IF decision # "submit" /\ status = "SUBMITTED" THEN StandardApproverRoles
    ELSE IF decision # "submit" /\ status = "PENDING_CEO" THEN {"CEO"}
    ELSE {}

\* mutant: any approver may decide on a contract that is pending the CEO
allowedRoles_anyApproverAtCeo(status, decision) ==
    IF decision = "submit" /\ status \in {"DRAFT", "CHANGES_REQUESTED"}
    THEN {"SCM"}
    ELSE IF decision # "submit" /\ status = "SUBMITTED" THEN StandardApproverRoles
    ELSE IF decision # "submit" /\ status = "PENDING_CEO"
    THEN StandardApproverRoles \cup {"CEO"}
    ELSE {}

\* the transition table: the roles that may take a decision in a status;
\* none in a terminal status
allowedRoles(status, decision) ==
    IF decision = "submit" /\ status \in {"DRAFT", "CHANGES_REQUESTED"}
    THEN {"SCM"}
    ELSE IF decision # "submit" /\ status = "SUBMITTED" THEN StandardApproverRoles
    ELSE IF decision # "submit" /\ status = "PENDING_CEO" THEN {"CEO"}
    ELSE {}

\* mandatory narrative and classification fields
mandatoryFieldsPopulated(c) ==
    /\ c.contractorName # <<>>
    /\ c.scopeOfWork # <<>>

auditEntry(user, action, now) ==
    [id |-> <<"a", now>>, timestamp |-> now, userId |-> user.id,
     userName |-> user.name, action |-> action, details |-> <<>>]

reviewRecord(user, decision, now) ==
    [id |-> <<"r", now>>, reviewerId |-> user.id, reviewerName |-> user.name,
     role |-> user.role, decision |-> decision, comment |-> <<>>, timestamp |-> now]

\* mutant: resubmission starts the approvals afresh
applySubmit_resetApprovals(c, user, now) ==
    IF c.status = "DRAFT"
    THEN [c EXCEPT !.status = "SUBMITTED",
                   !.submissionDate = <<now>>,
                   !.auditTrail = Append(@, auditEntry(user, "Submitted Contract", now))]
    ELSE [c EXCEPT !.status = "SUBMITTED",
                   !.corporateApprovals = EmptyMap,
                   !.auditTrail = Append(@, auditEntry(user, "Resubmitted Contract", now))]

\* mutant: every submission stamps submissionDate
applySubmit_restamp(c, user, now) ==
    IF c.status = "DRAFT"
    THEN [c EXCEPT !.status = "SUBMITTED",
                   !.submissionDate = <<now>>,
                   !.auditTrail = Append(@, auditEntry(user, "Submitted Contract", now))]
    ELSE [c EXCEPT !.status = "SUBMITTED",
                   !.submissionDate = <<now>>,
                   !.auditTrail = Append(@, auditEntry(user, "Resubmitted Contract", now))]

\* Draft -> Submitted stamps submissionDate; ChangesRequested -> Submitted
\* re-enters the pipeline with the approvals kept
applySubmit(c, user, now) ==
    IF c.status = "DRAFT"
    THEN [c EXCEPT !.status = "SUBMITTED",
                   !.submissionDate = <<now>>,
                   !.auditTrail = Append(@, auditEntry(user, "Submitted Contract", now))]
    ELSE [c EXCEPT !.status = "SUBMITTED",
                   !.auditTrail = Append(@, auditEntry(user, "Resubmitted Contract", now))]

\* a standard approval records its key; once all required keys are recorded
\* the contract moves on, to the CEO when high-risk or above the threshold
applyApprove(c, user, now) ==
    IF c.status = "PENDING_CEO"
    THEN [c EXCEPT !.status = "APPROVED",
                   !.reviews = Append(@, reviewRecord(user, "Approved", now)),
                   !.auditTrail = Append(@, auditEntry(user, "Approved", now))]
    ELSE LET approvals == setApproved(c.corporateApprovals, approvalKey(user.role))
             complete == \A k \in RequiredApprovals : isApproved(approvals, k)
             next == IF ~complete THEN c.status
                     ELSE IF c.isHighRisk \/ c.amount > CeoValueThreshold
                          THEN "PENDING_CEO" ELSE "APPROVED"
         IN [c EXCEPT !.status = next,
                      !.corporateApprovals = approvals,
                      !.reviews = Append(@, reviewRecord(user, "Approved", now)),
                      !.auditTrail = Append(@, auditEntry(user, "Approved", now))]

applyReject(c, user, now) ==
    [c EXCEPT !.status = "REJECTED",
              !.reviews = Append(@, reviewRecord(user, "Rejected", now)),
              !.auditTrail = Append(@, auditEntry(user, "Rejected", now))]

applyRequestChanges(c, user, now) ==
    [c EXCEPT !.status = "CHANGES_REQUESTED",
              !.reviews = Append(@, reviewRecord(user, "Changes Requested", now)),
              !.auditTrail = Append(@, auditEntry(user, "Changes Requested", now))]

\* validate, then apply: the outcome and the contract as it is afterwards
transition(c, user, decision, now) ==
    IF user.role \notin allowedRoles(c.status, decision)
    THEN [outcome |-> "invalid transition", contract |-> c]
    ELSE IF decision = "submit" /\ c.status = "DRAFT" /\ ~mandatoryFieldsPopulated(c)
    THEN [outcome |-> "incomplete", contract |-> c]
    ELSE [outcome |-> "ok",
          contract |-> CASE decision = "submit" -> applySubmit(c, user, now)
                         [] decision = "approve" -> applyApprove(c, user, now)
                         [] decision = "reject" -> applyReject(c, user, now)
                         [] decision = "requestChanges" -> applyRequestChanges(c, user, now)]

\* a contract as the submission form creates it: Draft, risk evaluated
newDraft(id, entity, amount, name, scope) ==
    LET contractType == IF amount > CapexTypeThreshold THEN "CAPEX" ELSE "OPEX"
        risk == evaluateRisk(contractType, amount)
    IN [id |-> id, entity |-> entity, contractorName |-> name,
        contractType |-> contractType, amount |-> amount, scopeOfWork |-> scope,
        status |-> "DRAFT", submitterId |-> "u1", submissionDate |-> <<>>,
        detectedTriggers |-> risk.detectedTriggers, isHighRisk |-> risk.isHighRisk,
        auditTrail |-> <<>>, comments |-> <<>>, hasUnreadComments |-> FALSE,
        reviews |-> <<>>, adHocReviewers |-> <<>>, corporateApprovals |-> EmptyMap]

\* most successful operations in one run of the workflow
MaxFlowSteps == 3

\* contracts a store starts with: seeded ones of every status, and drafts
\* from the form (complete low-value, complete high-risk, incomplete)
FlowCandidates ==
    LET seeded == MOCK_CONTRACTS(Now, 1)
    IN { seeded[1], seeded[2], seeded[3], seeded[4], seeded[5], seeded[6], seeded[7],
         seeded[10],
         newDraft(<<"D","1">>, "BRAZIL", 800000, <<"P","u","m","p","s">>, <<"S","u","p","p","l","y">>),
         newDraft(<<"D","2">>, "CONGO", 6000000, <<"R","i","g">>, <<"H","i","r","e">>),
         newDraft(<<"D","3">>, "LONDON", 800000, <<"D","e","s","k","s">>, <<>>) }

\* the users who act in the workflow
FlowActors == DOMAIN MOCK_USERS

\* a store of one contract, of a submitted and a rejected one, or of two
\* that are pending the CEO
FlowStores ==
    { <<c>> : c \in FlowCandidates }
    \cup { <<MOCK_CONTRACTS(Now, 1)[2], MOCK_CONTRACTS(Now, 1)[5]>>,
           <<MOCK_CONTRACTS(Now, 1)[1], MOCK_CONTRACTS(Now, 1)[7]>> }

FlowInit ==
    /\ store \in FlowStores
    /\ outcome = "none"
    /\ lastAttempt = [op |-> "none"]
    /\ clock = Now

\* mutant: the contract to replace is looked up by its status
updateStore_byStatus(contractStore, i, updated) ==
    [j \in DOMAIN contractStore |->
        IF contractStore[j].status = contractStore[i].status
        THEN updated ELSE contractStore[j]]

\* the store with the one contract replaced
updateStore(contractStore, i, updated) ==
    [j \in DOMAIN contractStore |-> IF j = i THEN updated ELSE contractStore[j]]

AttemptTransition(i, u, decision) ==
    /\ clock - Now < MaxFlowSteps
    /\ LET r == transition(store[i], MOCK_USERS[u], decision, clock)
       IN /\ store' = updateStore(store, i, r.contract)
          /\ outcome' = r.outcome
          /\ clock' = IF r.outcome = "ok" THEN clock + 1 ELSE clock
    /\ lastAttempt' = [op |-> decision, target |-> i, user |-> u]
    /\ UNCHANGED <<dashVars, riskVars, aiVars>>

FlowNext ==
    \E i \in DOMAIN store, u \in FlowActors, decision \in Decisions :
        AttemptTransition(i, u, decision)

-----------------------------------------------------------------------------
(* Comments (specification section 4.2).  hasUnreadComments is one flag    *)
(* shared by all users.                                                    *)

commentRecord(author, text, now) ==
    [id |-> <<"c", now>>, userId |-> author.id, userName |-> author.name,
     role |-> author.role, text |-> text, timestamp |-> now]

\* mutant: a contract that is Approved or Rejected takes no more comments
appendComment_closedWhenFinal(c, author, viewer, text, now) ==
    IF c.status \in TerminalStatuses THEN c
    ELSE [c EXCEPT !.comments = Append(@, commentRecord(author, text, now)),
                   !.hasUnreadComments = IF author.id # viewer.id THEN TRUE ELSE @]

\* a comment is appended in every status; it is unread when its author is
\* not the user who is viewing the contract
appendComment(c, author, viewer, text, now) ==
    [c EXCEPT !.comments = Append(@, commentRecord(author, text, now)),
              !.hasUnreadComments = IF author.id # viewer.id THEN TRUE ELSE @]

\* viewing the contract clears the flag
markViewed(c) == [c EXCEPT !.hasUnreadComments = FALSE]

\* most comments in one run
MaxComments == 2

\* the users who write comments
CommentAuthors == DOMAIN MOCK_USERS

\* the users who view the contract: submitter and CFO
CommentViewers == {1, 2}

CommentTexts == { <<"N", "o", "t", "e", "d", ".">> }

AppendComment(i, u, v, text) ==
    /\ clock - Now < MaxComments
    /\ store' = updateStore(store, i,
                    appendComment(store[i], MOCK_USERS[u], MOCK_USERS[v], text, clock))
    /\ outcome' = "ok"
    /\ clock' = clock + 1
    /\ lastAttempt' = [op |-> "comment", target |-> i, user |-> u, viewer |-> v]
    /\ UNCHANGED <<dashVars, riskVars, aiVars>>

OpenContract(i, v) ==
    /\ i \in DOMAIN store
    /\ store' = updateStore(store, i, markViewed(store[i]))
    /\ outcome' = "ok"
    /\ lastAttempt' = [op |-> "view", target |-> i, user |-> v]
    /\ UNCHANGED <<clock, dashVars, riskVars, aiVars>>

CommentNext ==
    \/ \E i \in DOMAIN store, u \in CommentAuthors, v \in CommentViewers,
          text \in CommentTexts : AppendComment(i, u, v, text)
    \/ \E i \in DOMAIN store, v \in CommentViewers : OpenContract(i, v)

-----------------------------------------------------------------------------
(* geminiService.ts.  The texts of this service are strings; an optional   *)
(* string (process.env.API_KEY, response.text) is <<>> or <<s>>.           *)

ApiKeyMissingText == "API Key not configured. Unable to perform AI analysis."

NoAnalysisText == "No analysis generated."

AnalysisErrorText == "Error generating AI analysis. Please review manually."

\* a || b on an optional string: undefined and '' are falsy
orElse(optional, fallback) ==
    IF optional = <<>> THEN fallback
    ELSE IF optional[1] = "" THEN fallback ELSE optional[1]

getApiKey(env) == orElse(env, "")

NoResponse == [kind |-> "none", text |-> <<>>]

\* a settled or pending promise of the service
settled(value) == [state |-> "resolved", value |-> <<value>>]

rejected == [state |-> "rejected", value |-> <<>>]

pending == [state |-> "pending", value |-> <<>>]

\* mutant: the error is passed on to the caller
analyzeAfterCall_rethrow(response) ==
    IF response.kind = "threw" THEN rejected
    ELSE settled(orElse(response.text, NoAnalysisText))

\* lines 53-62: what analyzeContractRisks returns once generateContent has
\* settled
analyzeAfterCall(response) ==
    IF response.kind = "threw" THEN settled(AnalysisErrorText)
    ELSE settled(orElse(response.text, NoAnalysisText))

\* mutant: a failed call yields no text
refineAfterCall_emptyOnError(text, response) ==
    IF response.kind = "threw" THEN settled("")
    ELSE settled(orElse(response.text, text))

\* lines 87-96: what refineContractText returns once generateContent has
\* settled
refineAfterCall(text, response) ==
    IF response.kind = "threw" THEN settled(text)
    ELSE settled(orElse(response.text, text))

\* line 67: the cases in which refineContractText returns at once
refineReturnsInput(apiKey, text) == apiKey = "" \/ text = "" \/ Len(text) < 5

\* process.env.API_KEY: undefined, empty or set
ApiKeyEnvs == { <<>>, <<"">>, <<"AIza-key">> }

\* contractorName of the contracts handed to analyzeContractRisks
AnalyzedContracts ==
    { "DeepSea Solutions", "Local Transport Co", "Waste Management", "" }

RoughTexts ==
    { "", "a", "pump", "    ", "pumps", "12345", "supply of pumps", "Hire of one rig." }

RefineContexts == { "scope", "background" }

\* how generateContent settles: it throws, or answers with a text that may
\* be undefined or empty
CallResponses ==
    { [kind |-> "threw", text |-> <<>>],
      [kind |-> "answered", text |-> <<>>],
      [kind |-> "answered", text |-> <<"">>],
      [kind |-> "answered", text |-> <<"- [Risk Level: High]: exposure.">>],
      [kind |-> "answered", text |-> <<"pumps">>] }

GeminiIdle ==
    gemini = [env |-> <<>>, fn |-> "none", arg |-> "", context |-> "none",
              requests |-> 0, response |-> NoResponse, promise |-> pending]

GeminiInit ==
    \E env \in ApiKeyEnvs :
       gemini = [env |-> env, fn |-> "none", arg |-> "", context |-> "none",
                 requests |-> 0, response |-> NoResponse, promise |-> pending]

\* lines 14-56: up to the await; clientThrows is the GoogleGenAI constructor
\* throwing inside the try block
analyzeContractRisks(contractorName, clientThrows) ==
    /\ gemini.fn = "none"
    /\ LET apiKey == getApiKey(gemini.env)
           called == [gemini EXCEPT !.fn = "analyze", !.arg = contractorName]
       IN gemini' =
            IF apiKey = "" THEN [called EXCEPT !.promise = settled(ApiKeyMissingText)]
            ELSE IF clientThrows
            THEN [called EXCEPT !.response = [kind |-> "threw", text |-> <<>>],
                                !.promise = settled(AnalysisErrorText)]
            ELSE [called EXCEPT !.requests = @ + 1]
    /\ UNCHANGED <<dashVars, riskVars, flowVars>>

\* lines 65-90: up to the await
refineContractText(text, context, clientThrows) ==
    /\ gemini.fn = "none"
    /\ LET apiKey == getApiKey(gemini.env)
           called == [gemini EXCEPT !.fn = "refine", !.arg = text, !.context = context]
       IN gemini' =
            IF refineReturnsInput(apiKey, text) THEN [called EXCEPT !.promise = settled(text)]
            ELSE IF clientThrows
            THEN [called EXCEPT !.response = [kind |-> "threw", text |-> <<>>],
                                !.promise = settled(text)]
            ELSE [called EXCEPT !.requests = @ + 1]
    /\ UNCHANGED <<dashVars, riskVars, flowVars>>

\* generateContent settles and the function runs to its return
GenerateContentSettles(response) ==
    /\ gemini.fn # "none"
    /\ gemini.promise.state = "pending"
    /\ gemini' = [gemini EXCEPT
                    !.response = response,
                    !.promise = IF gemini.fn = "analyze" THEN analyzeAfterCall(response)
                                ELSE refineAfterCall(gemini.arg, response)]
    /\ UNCHANGED <<dashVars, riskVars, flowVars>>

GeminiNext ==
    \/ \E name \in AnalyzedContracts, clientThrows \in BOOLEAN :
          analyzeContractRisks(name, clientThrows)
    \/ \E text \in RoughTexts, context \in RefineContexts, clientThrows \in BOOLEAN :
          refineContractText(text, context, clientThrows)
    \/ \E response \in CallResponses : GenerateContentSettles(response)

-----------------------------------------------------------------------------
(* Specifications.  Each component runs on its own; the variables of the   *)
(* others rest at their idle values.                                       *)

DashIdle ==
    /\ contracts = <<>>
    /\ selectedEntity = "ALL"
    /\ selectedStatus = "ALL"
    /\ isHighRiskFilter = FALSE
    /\ searchTerm = <<>>
    /\ sortOrder = "desc"
    /\ currentPage = 1
    /\ itemsPerPage = 25
    /\ lastEvent = [op |-> "mount", page |-> 1]

RiskIdle ==
    /\ collection = <<>>
    /\ riskIn = [phase |-> "idle"]
    /\ riskOut = [detectedTriggers |-> <<>>, isHighRisk |-> FALSE]

FlowIdle ==
    /\ store = <<>>
    /\ outcome = "none"
    /\ lastAttempt = [op |-> "none"]
    /\ clock = Now

\* the dashboard as mounted over a drawn collection with drawn filter state
ViewInit ==
    /\ contracts \in DrawnCollections
    /\ selectedEntity \in {"ALL"} \cup FlagLabels
    /\ selectedStatus \in StatusOptions
    /\ isHighRiskFilter \in BOOLEAN
    /\ searchTerm \in SearchInputs
    /\ sortOrder \in {"asc", "desc"}
    /\ currentPage = 1
    /\ itemsPerPage = 25
    /\ lastEvent = [op |-> "mount", page |-> 1]

Init == DashInit /\ RiskIdle /\ FlowIdle /\ GeminiIdle

\* the dashboard under user events
Spec == Init /\ [][Next]_vars

\* the derivations of the collection view on drawn inputs, re-rendered by
\* the sort toggle
ViewSpecInit == ViewInit /\ RiskIdle /\ FlowIdle /\ GeminiIdle

ViewNext == toggleSortOrder

SpecView == ViewSpecInit /\ [][ViewNext]_vars

\* the seeded collection, createMockContract and the risk rules
RiskSpecInit == RiskInit /\ DashIdle /\ FlowIdle /\ GeminiIdle

RiskNext == EvaluateRisk \/ CreateMock

SpecRisk == RiskSpecInit /\ [][RiskNext]_vars

FlowSpecInit == FlowInit /\ DashIdle /\ RiskIdle /\ GeminiIdle

\* the review workflow over a store of two contracts
SpecFlow == FlowSpecInit /\ [][FlowNext]_vars

GeminiSpecInit == GeminiInit /\ DashIdle /\ RiskIdle /\ FlowIdle

\* one call of the AI service in each environment
SpecGemini == GeminiSpecInit /\ [][GeminiNext]_vars

PagesSpecInit == PagesInit /\ RiskIdle /\ FlowIdle /\ GeminiIdle

PagesNext ==
    \/ \E n \in PageSizeOptions : ItemsPerPageChange(n)
    \/ PreviousPageClick
    \/ NextPageClick
    \/ toggleSortOrder

\* paging through collections of up to MaxPagedLen contracts
SpecPages == PagesSpecInit /\ [][PagesNext]_vars

\* comments and views over the same stores
SpecComments == FlowSpecInit /\ [][CommentNext]_vars

-----------------------------------------------------------------------------
(* Properties of the dashboard (Spec) *)

KpiOps == {"kpi:PENDING", "kpi:VALUE", "kpi:RISK", "kpi:AVG"}

FilterOps == {"flag", "status", "search", "pie", "pageSize"} \cup KpiOps

\* C1: a change of the entity filter, the status filter, the high-risk
\* filter, the search term or the page size sets currentPage to 1 whatever
\* page was shown; a toggle of the sort order leaves currentPage as it was.
C1_PageReset ==
    [][ /\ ( \/ selectedEntity' # selectedEntity
             \/ selectedStatus' # selectedStatus
             \/ isHighRiskFilter' # isHighRiskFilter
             \/ searchTerm' # searchTerm
             \/ itemsPerPage' # itemsPerPage ) => currentPage' = 1
        /\ sortOrder' # sortOrder => currentPage' = currentPage ]_vars

\* a filter handler ran while page 2 was shown, and page 1 is shown now
C1_Witness ==
    /\ lastEvent.op \in FilterOps
    /\ lastEvent.page > 1
    /\ currentPage = 1

\* C5: the aggregate metrics are the same before and after every event that
\* leaves the collection and the entity filter alone (status filter,
\* high-risk filter, search, sort order, page, page size).
C5_MetricsFrame ==
    [][ (contracts' = contracts /\ selectedEntity' = selectedEntity)
            => metrics' = metrics ]_vars

\* an entity is selected and the register shows fewer contracts than the
\* metrics are computed over
C5_Witness ==
    /\ selectedEntity # "ALL"
    /\ lastEvent.op \in {"status", "search", "pie"} \cup KpiOps
    /\ Len(filteredContracts) < Len(kpiBaseContracts)
    /\ metrics.totalValue > 0

-----------------------------------------------------------------------------
(* Properties of the derivations (SpecView) *)

\* the entity a flag label stands for
LabelEntity(label) ==
    CASE label = "London" -> "LONDON"
      [] label = "Brazil" -> "BRAZIL"
      [] label = "Congo" -> "CONGO"
      [] label = "Equatorial Guinea" -> "EQUATORIAL_GUINEA"

\* the data array as it is when the sort is about to run
dataBeforeSort ==
    applyFilters(contracts, selectedEntity, selectedStatus, isHighRiskFilter,
                 searchTerm).items

\* ids are unique in a collection: the position of a contract in a sequence
PosIn(seq, id) == CHOOSE i \in DOMAIN seq : seq[i].id = id

IdsOf(seq) == {seq[i].id : i \in DOMAIN seq}

SatisfiesAllFilters(c) ==
    /\ selectedEntity = "ALL" \/ c.entity = LabelEntity(selectedEntity)
    /\ \/ selectedStatus = "ALL"
       \/ selectedStatus = "REVIEW" /\ c.status \in {"SUBMITTED", "PENDING_CEO"}
       \/ c.status = selectedStatus
    /\ isHighRiskFilter => c.isHighRisk
    /\ searchTerm # <<>> =>
         \E text \in {c.contractorName, c.id, c.scopeOfWork} :
            includes(toLowerCase(text), toLowerCase(searchTerm))

\* C2: the filtered register holds exactly the contracts that satisfy all
\* active filters together (entity, status with the REVIEW composite,
\* high-risk, case-insensitive search over name, id and scope), each once.
C2_FilterExact ==
    /\ IdsOf(filteredContracts) =
          {contracts[i].id : i \in {j \in DOMAIN contracts : SatisfiesAllFilters(contracts[j])}}
    /\ Len(filteredContracts) = Cardinality(IdsOf(filteredContracts))
    /\ \A i \in DOMAIN filteredContracts :
          filteredContracts[i] = contracts[PosIn(contracts, filteredContracts[i].id)]

\* all four filters are active, one contract passes and another does not
C2_Witness ==
    /\ selectedEntity # "ALL"
    /\ selectedStatus = "REVIEW"
    /\ isHighRiskFilter
    /\ searchTerm # <<>>
    /\ Len(contracts) >= 2
    /\ Len(filteredContracts) = 1

EntityOnly ==
    /\ selectedEntity \in FlagLabels
    /\ selectedStatus = "ALL"
    /\ ~isHighRiskFilter
    /\ searchTerm = <<>>

EntitySelection ==
    EntityOnly =>
        /\ IdsOf(dataBeforeSort) =
              {contracts[i].id : i \in {j \in DOMAIN contracts :
                   contracts[j].entity = LabelEntity(selectedEntity)}}
        /\ \A i, j \in DOMAIN dataBeforeSort :
              i < j => PosIn(contracts, dataBeforeSort[i].id)
                         < PosIn(contracts, dataBeforeSort[j].id)
        /\ \A i \in DOMAIN dataBeforeSort :
              dataBeforeSort[i] = contracts[PosIn(contracts, dataBeforeSort[i].id)]

\* C3: with status ALL, high-risk off and no search, selecting an entity
\* yields exactly the contracts of that entity, in their original relative
\* order before the sort runs, and the render leaves the contracts array as
\* it was.
C3_EntityOrder ==
    [][ EntitySelection /\ EntitySelection' /\ contracts' = contracts ]_vars

\* two contracts of the selected entity, rendered, which the sort displays
\* in the opposite of their collection order
C3_Witness ==
    /\ EntityOnly
    /\ lastEvent.op = "sort"
    /\ Len(dataBeforeSort) >= 2
    /\ Len(dataBeforeSort) < Len(contracts)
    /\ filteredContracts # dataBeforeSort

SortKey(c) == OrZero(c.submissionDate)

\* C4: toggling the sort order reverses the relative order of two contracts
\* with distinct timestamps, and two contracts with equal timestamps are in
\* their collection order before and after the toggle.
C4_ToggleReverses ==
    [][ sortOrder' # sortOrder =>
          \A a, b \in DOMAIN filteredContracts :
             LET ca == filteredContracts[a]
                 cb == filteredContracts[b]
                 a2 == PosIn(filteredContracts', ca.id)
                 b2 == PosIn(filteredContracts', cb.id)
                 a0 == PosIn(contracts, ca.id)
                 b0 == PosIn(contracts, cb.id)
             IN a < b =>
                  IF SortKey(ca) # SortKey(cb)
                  THEN b2 < a2
                  ELSE a0 < b0 /\ a2 < b2 ]_vars

\* after a toggle the register shows a pair with distinct timestamps and a
\* pair with equal timestamps
C4_Witness ==
    /\ lastEvent.op = "sort"
    /\ \E a, b \in DOMAIN filteredContracts :
          SortKey(filteredContracts[a]) # SortKey(filteredContracts[b])
    /\ \E a, b \in DOMAIN filteredContracts :
          a # b /\ SortKey(filteredContracts[a]) = SortKey(filteredContracts[b])

RECURSIVE SumAmounts(_, _)
SumAmounts(seq, idx) ==
    IF idx = {} THEN 0
    ELSE LET i == CHOOSE k \in idx : TRUE
         IN seq[i].amount + SumAmounts(seq, idx \ {i})

\* C6: total value is the sum of amount over the whole collection under
\* ALL and over the selected entity's contracts otherwise, and the four
\* per-entity sums add up to the total value shown.
C6_TotalValue ==
    /\ selectedEntity = "ALL" =>
          metrics.totalValue = SumAmounts(contracts, DOMAIN contracts)
    /\ selectedEntity # "ALL" =>
          metrics.totalValue =
             SumAmounts(contracts, {i \in DOMAIN contracts :
                            contracts[i].entity = LabelEntity(selectedEntity)})
    /\ metrics.spendData[1].value + metrics.spendData[2].value
         + metrics.spendData[3].value + metrics.spendData[4].value
            = metrics.totalValue
    /\ \A k \in 1..4 :
          metrics.spendData[k].value =
             SumAmounts(kpiBaseContracts, {i \in DOMAIN kpiBaseContracts :
                            kpiBaseContracts[i].entity = Entities[k]})

\* contracts of two entities: under ALL the total spans both
C6_Witness ==
    /\ selectedEntity = "ALL"
    /\ \E i, j \in DOMAIN contracts : contracts[i].entity # contracts[j].entity
    /\ \E k \in 1..4 : metrics.spendData[k].value > 0
                        /\ metrics.spendData[k].value < metrics.totalValue

-----------------------------------------------------------------------------
(* Properties of the seeded collection and the risk rules (SpecRisk) *)

\* C7: for every contract of the collection, hand-written or built by
\* createMockContract, isHighRisk is true exactly when detectedTriggers is
\* non-empty, and every detected trigger has triggered = true.
C7_HighRiskIffTriggers ==
    \A i \in DOMAIN collection :
        /\ collection[i].isHighRisk <=> (Len(collection[i].detectedTriggers) > 0)
        /\ \A t \in DOMAIN collection[i].detectedTriggers :
              collection[i].detectedTriggers[t].triggered = TRUE

\* a record built on top of the seeds is high-risk, another contract is not
C7_Witness ==
    /\ Len(collection) > SeededCount
    /\ collection[Len(collection)].isHighRisk
    /\ Len(collection[Len(collection)].detectedTriggers) = 1
    /\ \E i \in DOMAIN collection : ~collection[i].isHighRisk

TriggerIds(triggers) == [i \in DOMAIN triggers |-> triggers[i].id]

\* C8: OPEX above 1,000,000 gives exactly the trigger t1, CAPEX above
\* 5,000,000 exactly t2, every other (type, amount) none; so CAPEX
\* 6,000,000 gives one trigger and OPEX 6,000,000 gives t1 and not t2.
C8_RiskRules ==
    riskIn.phase = "evaluated" =>
        /\ TriggerIds(riskOut.detectedTriggers) =
              IF riskIn.contractType = "OPEX" /\ riskIn.amount > 1000000 THEN <<"t1">>
              ELSE IF riskIn.contractType = "CAPEX" /\ riskIn.amount > 5000000 THEN <<"t2">>
              ELSE <<>>
        /\ (riskIn.contractType = "OPEX" /\ riskIn.amount \in {500000, 1000000})
              => riskOut.detectedTriggers = <<>>
        /\ (riskIn.contractType = "CAPEX" /\ riskIn.amount = 5000000)
              => riskOut.detectedTriggers = <<>>
        /\ (riskIn.contractType = "CAPEX" /\ riskIn.amount = 6000000)
              => Len(riskOut.detectedTriggers) = 1
        /\ \A t \in DOMAIN riskOut.detectedTriggers :
              /\ riskOut.detectedTriggers[t].id = "t1"
                    => riskOut.detectedTriggers[t].description = "OPEX > USD 1M"
              /\ riskOut.detectedTriggers[t].id = "t2"
                    => riskOut.detectedTriggers[t].description = "CAPEX > USD 5M"

\* the rules have run on OPEX 6,000,000 and fired t1 alone
C8_Witness ==
    /\ riskIn.phase = "evaluated"
    /\ riskIn.contractType = "OPEX"
    /\ riskIn.amount = 6000000
    /\ TriggerIds(riskOut.detectedTriggers) = <<"t1">>

-----------------------------------------------------------------------------
(* Properties of the workflow engine (SpecFlow) *)

\* the workflow fields of a contract
WorkflowFields(c) ==
    <<c.status, c.corporateApprovals, c.reviews, c.auditTrail, c.submissionDate>>

\* the step is an attempt, by the user and with the decision it records, on
\* the contract it records
Attempted == lastAttempt'.op \in Decisions

\* C9: a transition attempted on a contract whose status is Approved or
\* Rejected, by any user and with any decision, fails with the outcome
\* "invalid transition", and the contract's status, approvals, reviews and
\* audit trail are as they were; no step changes them on such a contract.
C9_TerminalFinal ==
    [][ /\ Attempted
        /\ \A i \in DOMAIN store :
              store[i].status \in {"APPROVED", "REJECTED"} =>
                 /\ WorkflowFields(store'[i]) = WorkflowFields(store[i])
                 /\ lastAttempt'.target = i =>
                       /\ outcome' = "invalid transition"
                       /\ store' = store ]_vars

\* an approver has tried to reject an approved contract, and the submitter to
\* resubmit a rejected one
C9_Witness ==
    /\ lastAttempt.op \in {"reject", "submit"}
    /\ outcome = "invalid transition"
    /\ LET c == store[lastAttempt.target]
           role == MOCK_USERS[lastAttempt.user].role
       IN \/ c.status = "APPROVED" /\ lastAttempt.op = "reject" /\ role = "CEO"
          \/ c.status = "REJECTED" /\ lastAttempt.op = "submit" /\ role = "SCM"

\* the role the specification requires for a decision on a status
RequiredRoles(status, decision) ==
    CASE status = "DRAFT" /\ decision = "submit" -> {"SCM"}
      [] status = "CHANGES_REQUESTED" /\ decision = "submit" -> {"SCM"}
      [] status = "SUBMITTED" /\ decision \in {"approve", "reject", "requestChanges"} ->
            {"CORPORATE_CFO", "CORPORATE_LEGAL", "CORPORATE_FUNCTION"}
      [] status = "PENDING_CEO" /\ decision \in {"approve", "reject", "requestChanges"} ->
            {"CEO"}
      [] OTHER -> {}

\* C10: a transition attempted by a user whose role is not the one required
\* for it fails with the outcome "invalid transition" and changes nothing in
\* the store: status, approvals, reviews, audit trail and submissionDate of
\* every contract are as they were.
C10_UnauthorizedFails ==
    [][ Attempted /\
        LET a == lastAttempt'
            c == store[a.target]
        IN (c.status \notin {"APPROVED", "REJECTED"}
            /\ MOCK_USERS[a.user].role \notin RequiredRoles(c.status, a.op)) =>
              /\ outcome' = "invalid transition"
              /\ store' = store ]_vars

\* a user other than the CEO has tried to approve a contract pending the CEO,
\* and a user outside the approvers to decide on a submitted one
C10_Witness ==
    /\ lastAttempt.op = "approve"
    /\ outcome = "invalid transition"
    /\ LET c == store[lastAttempt.target]
           role == MOCK_USERS[lastAttempt.user].role
       IN \/ c.status = "PENDING_CEO" /\ role = "CORPORATE_CFO"
          \/ c.status = "SUBMITTED" /\ role \in {"ADMIN", "ENGINEERING"}

\* the number of approvals recorded true
grantedCount(approvals) == Cardinality({k \in DOMAIN approvals : approvals[k]})

ascendingTimestamps(trail) ==
    \A m, n \in DOMAIN trail : m < n => trail[m].timestamp <= trail[n].timestamp

\* the audit trail of a contract that has left Draft starts with the
\* submission entry, is in ascending timestamp order and has an entry for the
\* submission and for every decision recorded on the contract
auditTrailComplete(c) ==
    /\ ascendingTimestamps(c.auditTrail)
    /\ c.status # "DRAFT" =>
          /\ Len(c.auditTrail) >= 1
          /\ c.auditTrail[1].action = "Submitted Contract"
          /\ Len(c.auditTrail) >= 1 + Len(c.reviews)
          /\ Len(c.auditTrail) >= 1 + grantedCount(c.corporateApprovals)

\* a successful transition appends exactly one entry and keeps the earlier
\* ones; a failed one leaves the trail alone
appendsOneEntry ==
    Attempted =>
       LET i == lastAttempt'.target
           before == store[i].auditTrail
           after == store'[i].auditTrail
       IN IF outcome' = "ok"
          THEN Len(after) = Len(before) + 1 /\ SubSeq(after, 1, Len(before)) = before
          ELSE after = before

\* C11: every successful transition appends exactly one entry to the audit
\* trail and keeps the earlier entries, and the audit trail of every contract
\* of the collection, seeded ones included, starts with the submission entry,
\* is in ascending timestamp order and has one entry per transition made.
C11_AuditTrail ==
    /\ [](\A i \in DOMAIN store : auditTrailComplete(store[i]))
    /\ [][appendsOneEntry]_vars

\* the part of C11 about the engine alone
C11_EngineAppends == [][appendsOneEntry]_vars

\* C12: along every sequence of transitions of a contract, a corporateApprovals
\* key that is true stays true: no approval by another role, no changes
\* request and no resubmission removes it or sets it back to false.
C12_ApprovalsMonotonic ==
    [][ \A i \in DOMAIN store : \A k \in RequiredApprovals :
           isApproved(store[i].corporateApprovals, k) =>
              isApproved(store'[i].corporateApprovals, k) ]_vars

\* a contract with a granted approval has been sent back for changes and
\* resubmitted
C12_Witness ==
    \E i \in DOMAIN store :
       LET c == store[i]
       IN /\ c.status = "SUBMITTED"
          /\ grantedCount(c.corporateApprovals) >= 1
          /\ c.auditTrail # <<>>
          /\ c.auditTrail[Len(c.auditTrail)].action = "Resubmitted Contract"
          /\ \E r \in DOMAIN c.reviews : c.reviews[r].decision = "Changes Requested"

\* C13: the transition Draft -> Submitted stamps submissionDate with the time
\* of the submission, and no transition of a contract that has left Draft
\* (approval, rejection, changes request, resubmission) and no failed attempt
\* changes it.
C13_SubmissionDateOnce ==
    [][ Attempted =>
        \A i \in DOMAIN store :
           IF store[i].status = "DRAFT" /\ store'[i].status = "SUBMITTED"
           THEN store'[i].submissionDate = <<clock>>
           ELSE store'[i].submissionDate = store[i].submissionDate ]_vars

\* a draft has been submitted, sent back for changes and resubmitted, and
\* carries the date of its first submission
C13_Witness ==
    \E i \in DOMAIN store :
       LET c == store[i]
       IN /\ c.status = "SUBMITTED"
          /\ Len(c.auditTrail) >= 3
          /\ c.auditTrail[1].action = "Submitted Contract"
          /\ c.auditTrail[1].timestamp >= Now
          /\ c.auditTrail[Len(c.auditTrail)].action = "Resubmitted Contract"
          /\ c.submissionDate = <<c.auditTrail[1].timestamp>>

approvalsComplete(c) ==
    \A k \in RequiredApprovals : isApproved(c.corporateApprovals, k)

needsCeo(c) == c.isHighRisk \/ c.amount > CeoValueThreshold

\* a contract pending the CEO has every required approval and is high-risk
\* or above the value threshold
pendingCeoJustified(c) ==
    c.status = "PENDING_CEO" => approvalsComplete(c) /\ needsCeo(c)

\* what a step may do to a Submitted contract, and how Approved is reached
routesBySection42 ==
    \A i \in DOMAIN store :
       LET before == store[i]
           after == store'[i]
       IN /\ (before.status = "SUBMITTED" /\ after.status = "PENDING_CEO") =>
                approvalsComplete(after) /\ needsCeo(after)
          /\ (before.status = "SUBMITTED" /\ after.status = "APPROVED") =>
                approvalsComplete(after) /\ ~needsCeo(after)
          /\ (before.status = "SUBMITTED" /\ outcome' = "ok"
                /\ lastAttempt'.target = i /\ lastAttempt'.op = "approve"
                /\ approvalsComplete(after)) =>
                after.status = (IF needsCeo(after) THEN "PENDING_CEO" ELSE "APPROVED")
          /\ (before.status # "APPROVED" /\ after.status = "APPROVED"
                /\ after.isHighRisk) => before.status = "PENDING_CEO"

\* C14: a Submitted contract moves to PendingCEO only once cfo, legal and
\* functionHead are recorded true and it is high-risk or over the value
\* threshold, and to Approved directly once they are complete otherwise;
\* every contract whose status is PendingCEO has all three recorded true and
\* is high-risk or over the threshold, and no high-risk contract becomes
\* Approved from a status other than PendingCEO.
C14_CeoRouting ==
    /\ [](\A i \in DOMAIN store : pendingCeoJustified(store[i]))
    /\ [][routesBySection42]_vars

\* the part of C14 about the engine alone
C14_EngineRouting == [][routesBySection42]_vars

\* C15: a transition attempted on one contract, whether it succeeds or fails,
\* leaves every other contract of the store identical in all its fields.
C15_OthersUntouched ==
    [][ Attempted =>
        /\ DOMAIN store' = DOMAIN store
        /\ \A j \in DOMAIN store :
              j # lastAttempt'.target => store'[j] = store[j] ]_vars

\* in a store of two contracts pending the CEO one has been decided on by the
\* CEO and the other is as it was seeded
C15_Witness ==
    /\ Len(store) = 2
    /\ outcome = "ok"
    /\ lastAttempt.op \in {"approve", "reject"}
    /\ LET moved == store[lastAttempt.target]
           other == store[3 - lastAttempt.target]
       IN /\ moved.status \in {"APPROVED", "REJECTED"}
          /\ moved.reviews[Len(moved.reviews)].timestamp >= Now
          /\ other.status = "PENDING_CEO"
          /\ other \in {MOCK_CONTRACTS(Now, 1)[1], MOCK_CONTRACTS(Now, 1)[7]}

-----------------------------------------------------------------------------
(* Properties of comments (SpecComments) *)

\* C16: a comment is appended to a contract in any status, Approved and
\* Rejected included; the step adds the comment after the earlier ones,
\* leaves status, corporateApprovals and reviews as they were and sets
\* hasUnreadComments to true when the author is not the user viewing the
\* contract; viewing the contract clears hasUnreadComments.
C16_Comments ==
    [][ LET a == lastAttempt'
            before == store[a.target]
            after == store'[a.target]
        IN /\ a.op = "comment" =>
                /\ outcome' = "ok"
                /\ Len(after.comments) = Len(before.comments) + 1
                /\ SubSeq(after.comments, 1, Len(before.comments)) = before.comments
                /\ after.comments[Len(after.comments)].userId = MOCK_USERS[a.user].id
                /\ after.status = before.status
                /\ after.corporateApprovals = before.corporateApprovals
                /\ after.reviews = before.reviews
                /\ a.user # a.viewer => after.hasUnreadComments
                /\ a.user = a.viewer => after.hasUnreadComments = before.hasUnreadComments
           /\ a.op = "view" =>
                /\ ~after.hasUnreadComments
                /\ after.comments = before.comments
                /\ after.status = before.status ]_vars

\* an Approved or Rejected contract has taken a comment from a user other
\* than the viewer and is flagged unread
C16_Witness ==
    /\ lastAttempt.op = "comment"
    /\ lastAttempt.user # lastAttempt.viewer
    /\ LET c == store[lastAttempt.target]
       IN /\ c.status \in {"APPROVED", "REJECTED"}
          /\ c.comments # <<>>
          /\ c.comments[Len(c.comments)].timestamp >= Now
          /\ c.hasUnreadComments

-----------------------------------------------------------------------------
(* Properties of the AI service (SpecGemini) *)

keyConfigured == gemini.env # <<>> /\ gemini.env[1] # ""

\* C17: analyzeContractRisks never rejects, and the text it resolves to is:
\* with no API key the 'API Key not configured' placeholder, no request
\* having been issued; when the call throws the 'Error generating AI
\* analysis' placeholder; when the call answers with no or an empty text
\* 'No analysis generated.'; otherwise the text of the response.
C17_AnalyzeDegrades ==
    gemini.fn = "analyze" =>
       /\ gemini.promise.state # "rejected"
       /\ ~keyConfigured =>
             gemini.promise = settled(ApiKeyMissingText) /\ gemini.requests = 0
       /\ (keyConfigured /\ gemini.response.kind = "threw") =>
             gemini.promise = settled(AnalysisErrorText)
       /\ (keyConfigured /\ gemini.response.kind = "answered") =>
             IF gemini.response.text \in { <<>>, <<"">> }
             THEN gemini.promise = settled(NoAnalysisText)
             ELSE gemini.promise.value = gemini.response.text
       /\ (keyConfigured /\ gemini.response.kind = "none") =>
             gemini.promise.state = "pending" /\ gemini.requests = 1

\* the service was asked, the request went out and threw
C17_Witness ==
    /\ gemini.fn = "analyze"
    /\ gemini.requests = 1
    /\ gemini.response.kind = "threw"
    /\ gemini.promise.state = "resolved"

\* C18: refineContractText never rejects, and it resolves to the input text
\* unchanged when no API key is configured or the input is empty or shorter
\* than 5 characters (no request having been issued), when the call throws
\* and when the response has no or an empty text.
C18_RefineDegrades ==
    gemini.fn = "refine" =>
       /\ gemini.promise.state # "rejected"
       /\ (~keyConfigured \/ Len(gemini.arg) < 5) =>
             gemini.promise = settled(gemini.arg) /\ gemini.requests = 0
       /\ gemini.response.kind = "threw" => gemini.promise = settled(gemini.arg)
       /\ (gemini.response.kind = "answered"
             /\ gemini.response.text \in { <<>>, <<"">> }) =>
             gemini.promise = settled(gemini.arg)

\* a text of five characters or more was sent and the request threw
C18_Witness ==
    /\ gemini.fn = "refine"
    /\ Len(gemini.arg) >= 5
    /\ gemini.requests = 1
    /\ gemini.response.kind = "threw"
    /\ gemini.promise = settled(gemini.arg)

-----------------------------------------------------------------------------
(* Properties of the seeded collection (SpecRisk) *)

hasSubmissionEntry(c) ==
    \E n \in DOMAIN c.auditTrail : c.auditTrail[n].action = "Submitted Contract"

\* C19: in the seeded collection a contract whose status is Draft and whose
\* audit trail holds no 'Submitted Contract' entry has no submissionDate.
C19_DraftsUndated ==
    \A n \in DOMAIN collection :
       (collection[n].status = "DRAFT" /\ ~hasSubmissionEntry(collection[n])) =>
          collection[n].submissionDate = <<>>

-----------------------------------------------------------------------------
(* Properties of the status histogram (SpecView) *)

\* C20: the status-distribution histogram holds non-zero buckets only: its
\* buckets name distinct statuses, and the value of each is at least 1 and is
\* the number of contracts of the entity-filtered base that have the status.
C20_HistogramNonZero ==
    LET buckets == metrics.statusData
        base == kpiBaseContracts
    IN /\ \A m, n \in DOMAIN buckets : m # n => buckets[m].name # buckets[n].name
       /\ \A n \in DOMAIN buckets :
             /\ buckets[n].name \in StatusSet
             /\ buckets[n].value >= 1
             /\ buckets[n].value =
                   Cardinality({k \in DOMAIN base : base[k].status = buckets[n].name})

\* under an entity filter the base has two contracts of one status and
\* none of another, whose bucket is left out
C20_Witness ==
    /\ selectedEntity # "ALL"
    /\ Len(kpiBaseContracts) < Len(contracts)
    /\ Len(metrics.statusData) \in 1..3
    /\ \E n \in DOMAIN metrics.statusData : metrics.statusData[n].value >= 2

RECURSIVE sumValues(_)
sumValues(buckets) ==
    IF buckets = <<>> THEN 0 ELSE Head(buckets).value + sumValues(Tail(buckets))

\* C21: the status-distribution histogram accounts for every contract of the
\* entity-filtered base: every status that at least one contract of the base
\* has, Draft and ChangesRequested included, has a bucket, and the bucket
\* values sum to the number of contracts in the base.
C21_HistogramComplete ==
    LET buckets == metrics.statusData
        base == kpiBaseContracts
    IN /\ \A k \in DOMAIN base :
             \E n \in DOMAIN buckets : buckets[n].name = base[k].status
       /\ sumValues(buckets) = Len(base)

-----------------------------------------------------------------------------
(* Properties of pagination (Spec, SpecView) *)

\* C22: for a fixed collection, after any sequence of dashboard actions and
\* the page-reset effect, 1 <= currentPage <= max(1, totalPages) with
\* totalPages = ceil(filtered length / page size), and the displayed page
\* slice is empty only when the filtered sequence is empty.
C22_PageInRange ==
    /\ totalPages = (Len(filteredContracts) + itemsPerPage - 1) \div itemsPerPage
    /\ 1 <= currentPage
    /\ currentPage <= (IF totalPages > 1 THEN totalPages ELSE 1)
    /\ paginatedContracts = <<>> => filteredContracts = <<>>

\* the second page is shown after a click on the next button
C22_Witness ==
    /\ lastEvent.op = "next"
    /\ currentPage = 2
    /\ totalPages = 2
    /\ paginatedContracts # <<>>

\* the pages 1..last of a sequence, one after the other
RECURSIVE concatPages(_, _, _, _)
concatPages(filtered, page, last, n) ==
    IF page > last THEN <<>>
    ELSE paginate(filtered, page, n) \o concatPages(filtered, page + 1, last, n)

\* C23: for the filtered-and-sorted sequence and every page size n of 25, 50
\* and 100, the page slices of pages 1..ceil(length/n) put one after the
\* other are exactly the sequence (consecutive, disjoint, nothing skipped or
\* repeated), every page but the last holds n contracts and the last holds
\* between 1 and n.
C23_PagesPartition ==
    \A n \in PageSizeOptions :
       LET filtered == filteredContracts
           last == (Len(filtered) + n - 1) \div n
       IN /\ concatPages(filtered, 1, last, n) = filtered
          /\ \A p \in 1..last :
                LET size == Len(paginate(filtered, p, n))
                IN IF p < last THEN size = n ELSE 1 <= size /\ size <= n

\* the third page of 51 contracts at 25 rows holds the one contract left
C23_Witness ==
    /\ Len(filteredContracts) = 51
    /\ itemsPerPage = 25
    /\ currentPage = 3
    /\ Len(paginatedContracts) = 1
    /\ paginatedContracts[1] = filteredContracts[51]

-----------------------------------------------------------------------------
(* Properties of the KPI cards (Spec) *)

\* C24: with an empty search term a click on the 'Contracts Under Review'
\* card makes the filtered register as long as the card's under-review count
\* for the current entity filter, and a click on the 'High Risk Identified'
\* card as long as the card's high-risk count; a click on either of the other
\* two cards sets status to ALL and high-risk off; no KPI click changes the
\* entity filter or the search term.
C24_KpiClicks ==
    /\ []( /\ (lastEvent.op = "kpi:PENDING" /\ searchTerm = <<>>) =>
                Len(filteredContracts) = metrics.pending
           /\ (lastEvent.op = "kpi:RISK" /\ searchTerm = <<>>) =>
                Len(filteredContracts) = metrics.highRisk
           /\ lastEvent.op \in {"kpi:VALUE", "kpi:AVG"} =>
                selectedStatus = "ALL" /\ isHighRiskFilter = FALSE )
    /\ [][ lastEvent'.op \in KpiOps =>
             selectedEntity' = selectedEntity /\ searchTerm' = searchTerm ]_vars

\* under an entity filter that leaves some contracts out, the under-review
\* card was clicked and the register shows the contracts it counts
C24_Witness ==
    /\ lastEvent.op = "kpi:PENDING"
    /\ selectedEntity # "ALL"
    /\ searchTerm = <<>>
    /\ metrics.pending >= 2
    /\ Len(filteredContracts) = metrics.pending
    /\ Len(filteredContracts) < Len(kpiBaseContracts)

-----------------------------------------------------------------------------
(* Properties of createMockContract (SpecRisk) *)

\* the contracts of the collection that createMockContract built: all but
\* the two written out in MOCK_CONTRACTS
builtByCreateMock == { n \in DOMAIN collection : n > 2 }

\* C25: for every contract built by createMockContract the type is CAPEX if
\* and only if amount > 5,000,000 (else OPEX), at most one trigger is
\* detected, and isHighRisk holds if and only if amount > 1,000,000: above
\* 5,000,000 exactly t2, above 1,000,000 and up to 5,000,000 exactly t1, up
\* to 1,000,000 none.
C25_MockTypeAndTrigger ==
    \A n \in builtByCreateMock :
       LET c == collection[n]
       IN /\ c.contractType = (IF c.amount > 5000000 THEN "CAPEX" ELSE "OPEX")
          /\ Len(c.detectedTriggers) <= 1
          /\ c.isHighRisk <=> c.amount > 1000000
          /\ TriggerIds(c.detectedTriggers) =
                IF c.amount > 5000000 THEN <<"t2">>
                ELSE IF c.amount > 1000000 THEN <<"t1">>
                ELSE <<>>

\* a contract of exactly 5,000,000 was created: OPEX with the trigger t1
C25_Witness ==
    /\ Len(collection) > SeededCount
    /\ LET c == collection[Len(collection)]
       IN /\ c.amount = 5000000
          /\ c.contractType = "OPEX"
          /\ TriggerIds(c.detectedTriggers) = <<"t1">>

-----------------------------------------------------------------------------
(* Properties of the sort of undated contracts (Spec) *)

undated(c) == c.submissionDate = <<>>

positiveDate(c) == c.submissionDate # <<>> /\ c.submissionDate[1] > 0

\* C26: a contract with no submissionDate is ordered as if its timestamp
\* were 0: in ascending order it precedes every contract with a positive
\* submissionDate, in descending order it follows them, and contracts with
\* no submissionDate are in their collection order among themselves.
C26_UndatedAsZero ==
    LET shown == filteredContracts
    IN \A a, b \in DOMAIN shown :
          /\ (undated(shown[a]) /\ positiveDate(shown[b])) =>
                IF sortOrder = "asc" THEN a < b ELSE b < a
          /\ (undated(shown[a]) /\ undated(shown[b]) /\ a < b) =>
                PosIn(contracts, shown[a].id) < PosIn(contracts, shown[b].id)

\* after a toggle to ascending order three undated contracts stand first, in
\* collection order, before the dated ones
C26_Witness ==
    /\ lastEvent.op = "sort"
    /\ sortOrder = "asc"
    /\ LET shown == filteredContracts
       IN /\ Cardinality({a \in DOMAIN shown : undated(shown[a])}) >= 3
          /\ \E a \in DOMAIN shown : positiveDate(shown[a])
          /\ undated(shown[1]) /\ undated(shown[2]) /\ undated(shown[3])
          /\ PosIn(contracts, shown[1].id) < PosIn(contracts, shown[2].id)

====
